---- MODULE Spec2Model ----
(***************************************************************************)
(* A state-machine model of the dreck garbage collector.                   *)
(*                                                                         *)
(* The arena modelled here is sys::UnsafeArena (src/src/sys/arena.rs) as   *)
(* it is driven through the safe wrappers Arena (src/src/arena.rs) and     *)
(* scoped::Gc (src/src/scoped/mod.rs).  A cell is a small integer; 0 is a  *)
(* null pointer.  The host is a program written against the safe API: it   *)
(* only uses handles it could still hold (handles of cells allocated since *)
(* the last collection, rooted cells, and cells read out of those).        *)
(*                                                                         *)
(* collect() is modelled at the grain of one iteration of its `while`      *)
(* loop: pc = "collect" while a call is running, and no host operation is  *)
(* enabled until it returns.                                               *)
(*                                                                         *)
(* allocation_debt is an f64 in the source; every value it takes is a      *)
(* multiple of 1/3 (s + s / 1.5), so the model keeps it in thirds, and     *)
(* keeps f64::INFINITY as Inf.                                             *)
(***************************************************************************)
EXTENDS Integers, Sequences, FiniteSets, TLC

\* ------------------------------------------------------------------ bounds
MaxCells == 3
MaxGuards == 2

\* --------------------------------------------------------------- constants
Null == 0
NoLink == -1
Sentinel == 0
Inf == -1
MIN_SLEEP == 4096
HeaderSize == 16
\* #[repr(align(16))] pub struct GcVTable
VTableAlign == 16
\* ptr.rs GcBox: the next pointer (16 bytes) and the color, padded
OldHeaderSize == 24
\* the number of v-table addresses tried
MaxVTables == 4
\* the largest size, in bytes, of a rebound type
MaxSize == 3

Cells == 1..MaxCells
Guards == 1..MaxGuards
Links == {Sentinel} \cup Guards

Types == {"Leaf", "Node"}
Statuses == {"Untraced", "Marked", "MarkedWeak", "Traced"}
Phases == {"Sleep", "Wake", "Trace", "Sweep"}

VARIABLES
    \* the cells (GcBox): how many were ever allocated, and per cell its
    \* payload type, its one Option<Gc> field, its packed status, its next link
    nalloc, ty, field, status, next,
    \* cells whose storage was handed back to the allocator
    freed,
    \* UnsafeArena
    all, sweep, sweep_prev, grays, grays_again,
    total_allocated, remembered_size, wakeup_total, allocation_debt, phase,
    \* the intrusive root list: per link (sentinel and guards) next and prev,
    \* per guard its pinned cell and whether it is "new", "linked" or "dropped"
    gnext, gprev, gvalue, gstate,
    \* the host: unrooted handles it holds (they die at a collection)
    held,
    \* the running call: "idle", "collect", "hung", "undefined", "dropped"
    pc, call, work, work_done,
    \* history: the cells allocated while the phase was Sweep, since the phase
    \* last became Sleep
    sweep_born,
    \* the outcome of the host's last call of a borrow_mut_* function or of
    \* rebind: the function, whether it panicked, the bytes it returned
    ret,
    \* one GcDataPtr: the address of the v-table it was made for, and its
    \* packed word
    v_table, data_ptr,
    \* ScopedArena: the Vec of ScopedGuards, the status of the GcBox that holds
    \* it, and Len(roots) at the entry of the `with` call that is running
    roots, roots_status, with_len

cellVars == <<nalloc, ty, field, status, next, freed>>
listVars == <<all, sweep, sweep_prev>>
grayVars == <<grays, grays_again>>
paceVars == <<total_allocated, remembered_size, wakeup_total, allocation_debt>>
rootVars == <<gnext, gprev, gvalue, gstate>>
callVars == <<pc, call, work, work_done>>
\* the state outside the arena
scopeVars == <<roots, roots_status, with_len>>
sideVars == <<ret, v_table, data_ptr, scopeVars>>
arenaVars == <<cellVars, listVars, grayVars, paceVars, phase, rootVars, held, callVars,
               sweep_born>>
vars == <<arenaVars, sideVars>>

\* ------------------------------------------------------------------- types
\* Trace::needs_trace of the payload type: a Leaf is a primitive, a Node is a
\* container holding one Option<Gc<Node>>.
needs_trace(t) == t # "Leaf"

\* Layout::new::<T>().size()
SizeOfT(t) == IF t = "Leaf" THEN 8 ELSE 4096

\* Layout::new::<GcBox<T>>().size(): next, data_ptr, value
BoxSize(t) == HeaderSize + SizeOfT(t)

\* GcVTable::new: the layout the v-table records
VTableSize(t) == SizeOfT(t)

\* ------------------------------------------------------------------- f64
DebtAdd(d, x) == IF d = Inf THEN Inf ELSE d + x

\* work > work_done as f64
WorkLeft(w, done) == w = Inf \/ w > 3 * done

Max(a, b) == IF a > b THEN a ELSE b

\* (x as f64 * PAUSE_FACTOR).round() as usize, PAUSE_FACTOR = 0.5
HalfRounded(x) == (x + 1) \div 2

\* ------------------------------------------------------------ reachability
Allocated == 1..nalloc
Live == Allocated \ freed

\* the Option<Gc> of a "Node" payload, which its trace marks
StrongField(p) == IF ty[p] = "Node" THEN field[p] ELSE Null

\* the weak reference of a "Weak" payload, which its trace marks weakly
WeakField(p) == IF ty[p] = "Weak" THEN field[p] ELSE Null

RECURSIVE ReachN(_, _)
ReachN(S, n) ==
    IF n = 0 THEN S
    ELSE ReachN(S \cup {StrongField(c) : c \in {x \in S \ freed : StrongField(x) # Null}},
                n - 1)

\* the cells a walk over payload pointers finds from S
Reach(S) == ReachN(S, MaxCells)

LinkedGuards == {g \in Guards : gstate[g] = "linked"}
RootVals == {gvalue[g] : g \in LinkedGuards}

\* the cells the host can name: through an unrooted handle, a rooted handle,
\* or a pointer read out of one of those
Accessible == Reach(held \cup RootVals) \ freed

RECURSIVE AllChainN(_, _)
AllChainN(c, n) ==
    IF c = Null \/ n = 0 THEN <<>> ELSE <<c>> \o AllChainN(next[c], n - 1)

\* the all-list, from `all` along next
AllChain == AllChainN(all, MaxCells + 1)
AllSet == {AllChain[i] : i \in 1..Len(AllChain)}

\* ---------------------------------------------------------------- ListLink
RECURSIVE RootChainN(_, _)
RootChainN(g, n) ==
    IF g = NoLink \/ n = 0 THEN <<>> ELSE <<g>> \o RootChainN(gnext[g], n - 1)

\* the guards the Wake walk visits, cut after MaxGuards + 1 links
RootChain == RootChainN(gnext[Sentinel], MaxGuards + 1)

\* the walk `while let Some(x) = cur` never reaches None
RootWalkEndless == Len(RootChain) > MaxGuards

\* ListLink::link(self = g, after = Sentinel)
LinkNext(g) ==
    LET nx == gnext[Sentinel]
        n1 == [gnext EXCEPT ![Sentinel] = g]
    IN  [n1 EXCEPT ![g] = nx]

LinkPrev(g) ==
    LET nx == gnext[Sentinel]
        p1 == [gprev EXCEPT ![g] = Sentinel]
    IN  IF nx # NoLink THEN [p1 EXCEPT ![nx] = g] ELSE p1

\* impl Drop for ListLink
UnlinkPrev(g) ==
    IF gnext[g] # NoLink THEN [gprev EXCEPT ![gnext[g]] = gprev[g]] ELSE gprev

\* a drop that leaves the predecessor's next link as it was
UnlinkNextStale(g) == gnext

UnlinkNext(g) ==
    IF gprev[g] # NoLink THEN [gnext EXCEPT ![gprev[g]] = gnext[g]] ELSE gnext

\* -------------------------------------------------------------------- Init
\* no borrow_mut_* or rebind call was made yet
NoCall == [fn |-> "none", panic |-> FALSE, out |-> <<>>]

\* no `with` call is running
NoWith == -1

\* ScopedArena::new: GcBox::new(ScopedGuards(Vec::new()))
ScopedNew ==
    /\ roots = <<>>
    /\ roots_status = "Untraced"
    /\ with_len = NoWith

\* UnsafeArena::new
InitFields ==
    /\ nalloc = 0
    /\ ty = [c \in Cells |-> "Leaf"]
    /\ field = [c \in Cells |-> Null]
    /\ status = [c \in Cells |-> "Untraced"]
    /\ next = [c \in Cells |-> Null]
    /\ freed = {}
    /\ all = Null
    /\ sweep = Null
    /\ sweep_prev = Null
    /\ grays = <<>>
    /\ grays_again = <<>>
    /\ total_allocated = 0
    /\ remembered_size = 0
    /\ wakeup_total = MIN_SLEEP
    /\ allocation_debt = 0
    /\ gnext = [l \in Links |-> NoLink]
    /\ gprev = [l \in Links |-> NoLink]
    /\ gvalue = [g \in Guards |-> Null]
    /\ gstate = [g \in Guards |-> "new"]
    /\ held = {}
    /\ pc = "idle"
    /\ call = "none"
    /\ work = 0
    /\ work_done = 0
    /\ sweep_born = {}

\* UnsafeArena::new
InitArena == InitFields /\ phase = "Sweep"

\* GcDataPtr::new: the packed word is the address of the type's v-table
Init ==
    /\ InitArena
    /\ ret = NoCall
    /\ v_table = VTableAlign
    /\ data_ptr = v_table
    /\ ScopedNew


\* ------------------------------------------------------------- UnsafeArena
\* UnsafeArena::add: the wake-up check
AddPhase(ph, total) ==
    IF ph = "Sleep" /\ total > wakeup_total THEN "Wake" ELSE ph

\* an add that tests the phase it found, not the phase after its wake-up check
AddDebtBefore(ph, s) ==
    IF phase # "Sleep" THEN DebtAdd(allocation_debt, 5 * s) ELSE allocation_debt

\* an add that charges the allocation to the debt in every phase
AddDebtAlways(ph, s) == DebtAdd(allocation_debt, 5 * s)

\* UnsafeArena::add: the debt of an allocation of s bytes, s + s / TIMING_FACTOR
AddDebt(ph, s) ==
    IF ph # "Sleep" THEN DebtAdd(allocation_debt, 5 * s) ELSE allocation_debt

\* UnsafeArena::add: a cell allocated while sweeping goes behind the cursor
AddSweepPrev(ph, c) ==
    IF ph = "Sweep" /\ sweep_prev = Null THEN c ELSE sweep_prev

\* Arena::add(value): value is a t whose pointer field is f
Add(t, f) ==
    /\ pc = "idle"
    /\ nalloc < MaxCells
    /\ f \in (IF needs_trace(t) THEN Accessible \cup {Null} ELSE {Null})
    /\ LET c == nalloc + 1
           total == total_allocated + BoxSize(t)
           ph == AddPhase(phase, total)
       IN  /\ nalloc' = c
           /\ ty' = [ty EXCEPT ![c] = t]
           /\ field' = [field EXCEPT ![c] = f]
           /\ status' = [status EXCEPT ![c] = "Untraced"]
           /\ next' = [next EXCEPT ![c] = all]
           /\ all' = c
           /\ total_allocated' = total
           /\ phase' = ph
           /\ allocation_debt' = AddDebt(ph, BoxSize(t))
           /\ sweep_prev' = AddSweepPrev(ph, c)
           /\ held' = held \cup {c}
           /\ sweep_born' = (IF ph = "Sweep" THEN sweep_born \cup {c} ELSE sweep_born)
    /\ UNCHANGED <<sideVars, freed, sweep, grays, grays_again, remembered_size,
                   wakeup_total, rootVars, callVars>>

\* UnsafeArena::root: write the pinned pointer, link the guard after the sentinel
RootLink(g, c) ==
    /\ gvalue' = [gvalue EXCEPT ![g] = c]
    /\ gnext' = LinkNext(g)
    /\ gprev' = LinkPrev(g)
    /\ gstate' = [gstate EXCEPT ![g] = "linked"]
    /\ UNCHANGED <<sideVars, sweep_born, cellVars, listVars, grayVars, paceVars, phase, held, callVars>>

\* Arena::root(value, guard) with a guard fresh from RootGuard::new
Root(g, c) ==
    /\ pc = "idle"
    /\ gstate[g] = "new"
    /\ \A h \in Guards : h < g => gstate[h] # "new"
    /\ c \in Accessible
    /\ RootLink(g, c)

\* Arena::root(value, guard) with a guard that is linked already (the pointer
\* its first use returned is no longer used, so the guard can be borrowed again)
RootRelink(g, c) ==
    /\ pc = "idle"
    /\ gstate[g] = "linked"
    /\ c \in Accessible
    /\ RootLink(g, c)

\* whether a link other than g still points at g
PointedAt(g, nx, pv) == \E h \in Links \ {g} : nx[h] = g \/ pv[h] = g

\* impl Drop for ListLink, run when the guard goes out of scope.  The guard's
\* own storage is gone afterwards: the model blanks it.  When no link points
\* there any more the storage can hold a guard made by a later
\* UnsafeRootGuard::new ("new"); while one does, a read through that link is a
\* read of dead storage ("dropped").
DropGuard(g) ==
    /\ pc = "idle"
    /\ gstate[g] = "linked"
    /\ gprev' = [UnlinkPrev(g) EXCEPT ![g] = NoLink]
    /\ gnext' = [UnlinkNext(g) EXCEPT ![g] = NoLink]
    /\ gvalue' = [gvalue EXCEPT ![g] = Null]
    /\ gstate' = [gstate EXCEPT ![g] =
                    IF PointedAt(g, gnext', gprev') THEN "dropped" ELSE "new"]
    /\ UNCHANGED <<sideVars, sweep_born, cellVars, listVars, grayVars, paceVars, phase, held, callVars>>

\* UnsafeArena::write_barrier(value): whether it re-grays the cell
UnsafeBarrierFires(c) ==
    /\ ~ needs_trace(ty[c])
    /\ phase = "Trace"
    /\ status[c] = "Traced"

\* Arena::write_barrier(ptr): the wrapper returns early for leaf types
ArenaBarrierFires(c) ==
    /\ needs_trace(ty[c])
    /\ UnsafeBarrierFires(c)

\* the barrier as reached through `via`: "arena" is Arena::write_barrier,
\* "scoped" is scoped::Gc::borrow_mut, which calls UnsafeArena::write_barrier
BarrierFires(c, via) ==
    IF via = "arena" THEN ArenaBarrierFires(c) ELSE UnsafeBarrierFires(c)

BarrierStatus(c, via) ==
    IF BarrierFires(c, via) THEN [status EXCEPT ![c] = "Marked"] ELSE status

BarrierGraysAgain(c, via) ==
    IF BarrierFires(c, via) THEN Append(grays_again, c) ELSE grays_again

Vias == {"arena", "scoped"}

\* a write barrier on its own (a mutable borrow that installs no pointer)
WriteBarrier(c, via) ==
    /\ pc = "idle"
    /\ c \in Accessible
    /\ status' = BarrierStatus(c, via)
    /\ grays_again' = BarrierGraysAgain(c, via)
    /\ UNCHANGED <<sideVars, sweep_born, nalloc, ty, field, next, freed, listVars, grays, paceVars, phase,
                   rootVars, held, callVars>>

\* borrow_mut on cell c, barrier first, and then the host stores d in its field
BorrowMutSet(c, d, via) ==
    /\ pc = "idle"
    /\ c \in Accessible
    /\ needs_trace(ty[c])
    /\ d \in Accessible \cup {Null}
    /\ d # field[c]
    /\ status' = BarrierStatus(c, via)
    /\ grays_again' = BarrierGraysAgain(c, via)
    /\ field' = [field EXCEPT ![c] = d]
    /\ UNCHANGED <<sideVars, sweep_born, nalloc, ty, next, freed, listVars, grays, paceVars, phase,
                   rootVars, held, callVars>>

\* ------------------------------------------------- Gc::borrow_mut_* (ptr.rs)
\* Root::write_barrier(gc).  Root's Phase::Mark and Color::Black are the
\* "Trace" and "Traced" of this module.
RootBarrierFires(c) ==
    /\ needs_trace(ty[c])
    /\ phase = "Trace"
    /\ status[c] = "Traced"

\* the barriers of one borrow_mut_* call, on the cells of q in turn
BorrowBarrierStatus(q) ==
    [c \in Cells |->
        IF (\E i \in 1..Len(q) : q[i] = c) /\ RootBarrierFires(c)
        THEN "Marked" ELSE status[c]]

BorrowBarrierGraysAgain(q) == grays_again \o SelectSeq(q, RootBarrierFires)

\* a borrow_mut_untraced without its assertion
UntracedNeverPanics(c) == FALSE

\* assert!(!T::needs_trace())
UntracedPanics(c) == needs_trace(ty[c])

\* a borrow_mut_3 that forgets to compare its second and third pointer
SameCellFirstOnly(q) == \E j \in 2..Len(q) : q[1] = q[j]

\* the assert_ne! lines of borrow_mut_2 and borrow_mut_3
SameCell(q) == \E i, j \in 1..Len(q) : i < j /\ q[i] = q[j]

\* what a borrow_mut_* call leaves behind: a panic and nothing else, or the
\* barriers and the references.  The call takes `&mut CellOwner`, so the
\* references of an earlier call are dead when it is made.
BorrowOutcome(fn, q, panics, barriers) ==
    /\ pc = "idle"
    /\ ret = NoCall
    /\ ret' = [fn |-> fn, panic |-> panics, out |-> IF panics THEN <<>> ELSE q]
    /\ {q[i] : i \in 1..Len(q)} \subseteq Accessible
    /\ status' = (IF panics \/ ~ barriers THEN status ELSE BorrowBarrierStatus(q))
    /\ grays_again' =
        (IF panics \/ ~ barriers THEN grays_again ELSE BorrowBarrierGraysAgain(q))
    /\ UNCHANGED <<scopeVars, v_table, data_ptr, sweep_born, nalloc, ty, field, next, freed, listVars,
                   grays, paceVars, phase, rootVars, held, callVars>>

\* Gc::borrow_mut_untraced(self, owner)
BorrowMutUntraced(c) ==
    BorrowOutcome("borrow_mut_untraced", <<c>>, UntracedPanics(c), FALSE)

\* Gc::borrow_mut_2(owner, arena, a, b)
BorrowMut2(a, b) == BorrowOutcome("borrow_mut_2", <<a, b>>, SameCell(<<a, b>>), TRUE)

\* Gc::borrow_mut_3(owner, arena, a, b, c)
BorrowMut3(a, b, c) ==
    BorrowOutcome("borrow_mut_3", <<a, b, c>>, SameCell(<<a, b, c>>), TRUE)

\* the host is done with the outcome of its last borrow_mut_* call
EndBorrow ==
    /\ pc = "idle"
    /\ ret # NoCall
    /\ ret' = NoCall
    /\ UNCHANGED <<scopeVars, v_table, data_ptr, arenaVars>>

\* ------------------------------------------------------------- collections
\* a collect that enters its loop whatever the phase
CollectEnterAlways(kind) ==
    /\ pc' = "collect"
    /\ call' = kind
    /\ work' = allocation_debt'
    /\ work_done' = 0

\* UnsafeArena::collect, up to the loop: Sleep returns at once
CollectEnter(kind) ==
    IF phase' = "Sleep"
    THEN UNCHANGED callVars
    ELSE /\ pc' = "collect"
         /\ call' = kind
         /\ work' = allocation_debt'
         /\ work_done' = 0

\* Arena::collect(&mut self): no unrooted handle and no borrow outlives the call
Collect ==
    /\ pc = "idle"
    /\ held' = {}
    /\ ret' = NoCall
    /\ UNCHANGED <<scopeVars, v_table, data_ptr, sweep_born, cellVars, listVars, grayVars, paceVars, phase, rootVars>>
    /\ CollectEnter("collect")

\* UnsafeArena::collect_full
CollectFull ==
    /\ pc = "idle"
    /\ held' = {}
    /\ phase' = "Wake"
    /\ allocation_debt' = Inf
    /\ ret' = NoCall
    /\ UNCHANGED <<scopeVars, v_table, data_ptr, sweep_born, cellVars, listVars, grayVars, total_allocated, remembered_size,
                   wakeup_total, rootVars>>
    /\ CollectEnter("full")

\* impl Drop for UnsafeArena: roots.clear(), then collect_full
DropArena ==
    /\ pc = "idle"
    /\ held' = {}
    /\ gnext' = [gnext EXCEPT ![Sentinel] = NoLink]
    /\ gprev' = [gprev EXCEPT ![Sentinel] = NoLink]
    /\ phase' = "Wake"
    /\ allocation_debt' = Inf
    /\ ret' = NoCall
    /\ UNCHANGED <<scopeVars, v_table, data_ptr, sweep_born, cellVars, listVars, grayVars, total_allocated, remembered_size,
                   wakeup_total, gvalue, gstate>>
    /\ CollectEnter("drop")


\* ------------------------------------------------- UnsafeArena::collect loop
Running == pc = "collect" /\ WorkLeft(work, work_done)

\* the call returns to the host (or, for the arena's Drop, ends the arena)
Return ==
    /\ pc' = (IF call = "drop" THEN "dropped" ELSE "idle")
    /\ call' = "none"
    /\ work' = 0
    /\ work_done' = 0

\* `while work > work_done as f64` fails
LoopExit ==
    /\ pc = "collect"
    /\ ~ WorkLeft(work, work_done)
    /\ Return
    /\ UNCHANGED <<sideVars, sweep_born, cellVars, listVars, grayVars, paceVars, phase, rootVars, held>>

\* Phase::Wake: the pinned cells, in the order of the walk from the sentinel
WakeRoots == [i \in 1..Len(RootChain) |-> gvalue[RootChain[i]]]

WakeStatus ==
    [c \in Cells |->
        IF \E i \in 1..Len(WakeRoots) : WakeRoots[i] = c THEN "Marked" ELSE status[c]]

\* Phase::Wake reads a guard that was dropped or a pinned cell that was freed
WakeDangling ==
    \E i \in 1..Len(RootChain) :
        gstate[RootChain[i]] # "linked" \/ gvalue[RootChain[i]] \in freed

WakeStep ==
    /\ Running
    /\ phase = "Wake"
    /\ ~ RootWalkEndless
    /\ ~ WakeDangling
    /\ sweep_prev' = Null
    /\ status' = WakeStatus
    /\ grays' = grays \o WakeRoots
    /\ phase' = "Trace"
    /\ UNCHANGED <<sideVars, sweep_born, nalloc, ty, field, next, freed, all, sweep, grays_again, paceVars,
                   rootVars, held, callVars>>

\* Phase::Wake on a root list whose next-chain never ends: the walk pushes onto
\* grays until the process runs out of memory; the call never returns
WakeEndless ==
    /\ Running
    /\ phase = "Wake"
    /\ RootWalkEndless
    /\ ~ WakeDangling
    /\ pc' = "hung"
    /\ UNCHANGED <<sideVars, sweep_born, cellVars, listVars, grayVars, paceVars, phase, rootVars, held,
                   call, work, work_done>>

\* a marker that leaves only Traced cells alone
MarkFiresUnlessTraced(d) == d # Null /\ status[d] # "Traced"

\* UnsafeMarker::mark(ptr) for the pointer d of a payload (Null: no pointer)
MarkFires(d) == d # Null /\ status[d] = "Untraced"

MarkPushes(d) == MarkFires(d) /\ needs_trace(ty[d])

\* the weak marker on the target d of a weak reference: MarkedWeak when the
\* cell is still Untraced, and no push
WeakMarkFires(d) == d # Null /\ d \notin freed /\ status[d] = "Untraced"

\* (v_table.trace)(ptr, marker), then set_status(Traced)
TraceStatus(p) ==
    LET d == StrongField(p)
        w == WeakField(p)
        s1 == IF MarkFires(d) THEN [status EXCEPT ![d] = "Marked"] ELSE status
        s2 == IF WeakMarkFires(w) THEN [s1 EXCEPT ![w] = "MarkedWeak"] ELSE s1
    IN  [s2 EXCEPT ![p] = "Traced"]

TraceGrays(p, rest) ==
    LET d == StrongField(p)
    IN  IF MarkPushes(d) THEN Append(rest, d) ELSE rest

Front(q) == SubSeq(q, 1, Len(q) - 1)
Last(q) == q[Len(q)]

\* the cell the next Trace step pops
TracePopped ==
    IF grays # <<>> THEN Last(grays)
    ELSE IF grays_again # <<>> THEN Last(grays_again) ELSE Null

TraceDangling ==
    LET p == TracePopped
    IN  /\ p # Null
        /\ \/ p \in freed
           \/ StrongField(p) # Null /\ StrongField(p) \in freed

\* Phase::Trace, first arm: pop grays
TraceGray ==
    /\ Running
    /\ phase = "Trace"
    /\ grays # <<>>
    /\ ~ TraceDangling
    /\ LET p == Last(grays)
       IN  /\ work_done' = work_done + VTableSize(ty[p])
           /\ status' = TraceStatus(p)
           /\ grays' = TraceGrays(p, Front(grays))
    /\ UNCHANGED <<sideVars, sweep_born, nalloc, ty, field, next, freed, listVars, grays_again, paceVars,
                   phase, rootVars, held, pc, call, work>>

\* Phase::Trace, second arm: pop grays_again
TraceGrayAgain ==
    /\ Running
    /\ phase = "Trace"
    /\ grays = <<>>
    /\ grays_again # <<>>
    /\ ~ TraceDangling
    /\ LET p == Last(grays_again)
       IN  /\ status' = TraceStatus(p)
           /\ grays' = TraceGrays(p, grays)
           /\ grays_again' = Front(grays_again)
    /\ UNCHANGED <<sideVars, sweep_born, nalloc, ty, field, next, freed, listVars, paceVars,
                   phase, rootVars, held, callVars>>

\* Phase::Trace, third arm: both stacks are empty
TraceDone ==
    /\ Running
    /\ phase = "Trace"
    /\ grays = <<>>
    /\ grays_again = <<>>
    /\ phase' = "Sweep"
    /\ sweep' = all
    /\ remembered_size' = 0
    /\ UNCHANGED <<sideVars, sweep_born, cellVars, all, sweep_prev, grayVars, total_allocated, wakeup_total,
                   allocation_debt, rootVars, held, callVars>>

SweepDangling ==
    /\ sweep # Null
    /\ \/ sweep \in freed
       \/ status[sweep] = "Untraced" /\ sweep_prev # Null /\ sweep_prev \in freed

\* whether the sweep frees the cell under the cursor
SweepFrees(c) == status[c] = "Untraced"

\* a sweep that forgets to unlink behind a kept cell
SweepUnlinkNextStale(c) == next

\* Phase::Sweep, unlinking cell c: `prev.next.set(ptr.next)` when a kept cell
\* precedes it, `all.set(ptr.next)` when none does
SweepUnlinkNext(c) ==
    IF sweep_prev # Null THEN [next EXCEPT ![sweep_prev] = next[c]] ELSE next

\* a sweep that leaves the head of the list as it was
SweepUnlinkAllKeep(c) == all

SweepUnlinkAll(c) == IF sweep_prev # Null THEN all ELSE next[c]

\* Phase::Sweep on a cell that is freed: unlink, count, drop, dealloc.  The
\* storage is gone afterwards: the model blanks the payload and the link.
SweepFree ==
    /\ Running
    /\ phase = "Sweep"
    /\ sweep # Null
    /\ ~ SweepDangling
    /\ SweepFrees(sweep)
    /\ sweep' = next[sweep]
    /\ next' = [SweepUnlinkNext(sweep) EXCEPT ![sweep] = Null]
    /\ all' = SweepUnlinkAll(sweep)
    /\ total_allocated' = total_allocated - VTableSize(ty[sweep])
    /\ freed' = freed \cup {sweep}
    /\ field' = [field EXCEPT ![sweep] = Null]
    /\ UNCHANGED <<sideVars, sweep_born, nalloc, ty, status, sweep_prev, grayVars, remembered_size,
                   wakeup_total, allocation_debt, phase, rootVars, held, callVars>>

\* a sweep that leaves the status of a survivor as it was
SweepResetNone(c) == status

\* Phase::Sweep on a cell that survives: set_status(Status::Untraced)
SweepReset(c) == [status EXCEPT ![c] = "Untraced"]

\* Phase::Sweep on a cell that survives
SweepKeep ==
    /\ Running
    /\ phase = "Sweep"
    /\ sweep # Null
    /\ ~ SweepDangling
    /\ ~ SweepFrees(sweep)
    /\ sweep' = next[sweep]
    /\ remembered_size' = remembered_size + VTableSize(ty[sweep])
    /\ status' = SweepReset(sweep)
    /\ sweep_prev' = sweep
    /\ UNCHANGED <<sideVars, sweep_born, nalloc, ty, field, next, freed, all, grayVars, total_allocated,
                   wakeup_total, allocation_debt, phase, rootVars, held, callVars>>

\* a threshold without the floor of MIN_SLEEP
NextWakeupNoFloor == total_allocated + HalfRounded(remembered_size)

\* the next wake-up threshold
NextWakeup == total_allocated + Max(HalfRounded(remembered_size), MIN_SLEEP)

\* Phase::Sweep with the cursor at the end of the list: sleep and return
SweepDone ==
    /\ Running
    /\ phase = "Sweep"
    /\ sweep = Null
    /\ phase' = "Sleep"
    /\ allocation_debt' = 0
    /\ wakeup_total' = NextWakeup
    /\ Return
    /\ sweep_born' = {}
    /\ UNCHANGED <<sideVars, cellVars, listVars, grayVars, total_allocated, remembered_size,
                   rootVars, held>>

\* a step of the loop that reads storage which was already handed back (a freed
\* cell, a dropped guard): the behaviour of the call is undefined from here on.
\* pc = "undefined" stands for every outcome; the call is not known to return.
UseAfterFree ==
    /\ Running
    /\ \/ phase = "Wake" /\ WakeDangling
       \/ phase = "Trace" /\ TraceDangling
       \/ phase = "Sweep" /\ SweepDangling
    /\ pc' = "undefined"
    /\ UNCHANGED <<sideVars, sweep_born, cellVars, listVars, grayVars, paceVars, phase, rootVars, held,
                   call, work, work_done>>

\* ------------------------------------------------------ Root (src/root.rs)
\* The older arena, `Root`.  Its cells are ptr.rs GcBox: a color (White is
\* "Untraced", Gray is "Marked", Black is "Traced") in place of the packed
\* status, and no v-table.  Its roots are a Vec: guard i holds the i-th entry.

\* Layout::new::<GcBox<T>>().size() of ptr.rs GcBox: next, color, value
GcBoxSize(t) == OldHeaderSize + SizeOfT(t)

\* (allocation_debt - work_done as f64).max(0.0)
DebtSub(d, done) == IF d = Inf THEN Inf ELSE Max(d - 3 * done, 0)

\* self.roots
RootsVec == [i \in 1..Cardinality(LinkedGuards) |-> gvalue[i]]

\* Root::add(v): v is a t whose pointer field is f
Root_add(t, f) ==
    /\ pc = "idle"
    /\ nalloc < MaxCells
    /\ f \in (IF needs_trace(t) THEN Accessible \cup {Null} ELSE {Null})
    /\ LET c == nalloc + 1
           total == total_allocated + GcBoxSize(t)
           ph == AddPhase(phase, total)
       IN  /\ nalloc' = c
           /\ ty' = [ty EXCEPT ![c] = t]
           /\ field' = [field EXCEPT ![c] = f]
           /\ status' = [status EXCEPT ![c] = "Untraced"]
           /\ next' = [next EXCEPT ![c] = all]
           /\ all' = c
           /\ total_allocated' = total
           /\ phase' = ph
           /\ allocation_debt' = AddDebt(ph, GcBoxSize(t))
           /\ sweep_prev' = AddSweepPrev(ph, c)
           /\ held' = held \cup {c}
           /\ sweep_born' = (IF ph = "Sweep" THEN sweep_born \cup {c} ELSE sweep_born)
    /\ UNCHANGED <<sideVars, freed, sweep, grays, grays_again, remembered_size,
                   wakeup_total, rootVars, callVars>>

\* Root::root_gc(t): push onto the Vec
Root_root_gc(c) ==
    /\ pc = "idle"
    /\ Cardinality(LinkedGuards) < MaxGuards
    /\ c \in Accessible
    /\ LET g == Cardinality(LinkedGuards) + 1
       IN  /\ gvalue' = [gvalue EXCEPT ![g] = c]
           /\ gstate' = [gstate EXCEPT ![g] = "linked"]
    /\ UNCHANGED <<sideVars, sweep_born, cellVars, listVars, grayVars, paceVars, phase, held,
                   callVars, gnext, gprev>>

\* impl Drop for RootGuard: pop the Vec
RootGuard_drop ==
    /\ pc = "idle"
    /\ LinkedGuards # {}
    /\ LET g == Cardinality(LinkedGuards)
       IN  /\ gvalue' = [gvalue EXCEPT ![g] = Null]
           /\ gstate' = [gstate EXCEPT ![g] = "new"]
    /\ UNCHANGED <<sideVars, sweep_born, cellVars, listVars, grayVars, paceVars, phase, held,
                   callVars, gnext, gprev>>

\* Gc::borrow_mut on cell c of Root (barrier first), and then the host stores
\* d in its field
Root_borrow_mut_set(c, d) ==
    /\ pc = "idle"
    /\ c \in Accessible
    /\ needs_trace(ty[c])
    /\ d \in Accessible \cup {Null}
    /\ d # field[c]
    /\ status' = BorrowBarrierStatus(<<c>>)
    /\ grays_again' = BorrowBarrierGraysAgain(<<c>>)
    /\ field' = [field EXCEPT ![c] = d]
    /\ UNCHANGED <<sideVars, sweep_born, nalloc, ty, next, freed, listVars, grays, paceVars, phase,
                   rootVars, held, callVars>>

\* Root::collect
Root_collect ==
    /\ pc = "idle"
    /\ held' = {}
    /\ ret' = NoCall
    /\ UNCHANGED <<scopeVars, v_table, data_ptr, sweep_born, cellVars, listVars, grayVars, paceVars, phase, rootVars>>
    /\ CollectEnter("root_collect")

\* Tracer::mark(gc) for the pointer d of a payload, on the colors and the
\* gray stack in st
TracerMark(st, d) ==
    IF d = Null \/ st.status[d] # "Untraced" THEN st
    ELSE [status |-> [st.status EXCEPT ![d] = "Marked"],
          grays |-> IF needs_trace(ty[d]) THEN Append(st.grays, d) ELSE st.grays]

\* a trace of a rooted cell that marks what the cell points at, but not the
\* cell
GcBoxTraceChildOnly(st, x) ==
    IF needs_trace(ty[x]) THEN TracerMark(st, StrongField(x)) ELSE st

\* <GcBox as Trace>::trace on the rooted cell x: Gray, and trace the payload
GcBoxTrace(st, x) ==
    IF st.status[x] = "Marked" THEN st
    ELSE LET s1 == [st EXCEPT !.status[x] = "Marked"]
         IN  IF needs_trace(ty[x]) THEN TracerMark(s1, StrongField(x)) ELSE s1

\* self.roots.borrow().iter().for_each(|x| (*x).trace(..)) from entry i on
RECURSIVE RootsTrace(_, _)
RootsTrace(st, i) ==
    IF i > Len(RootsVec) THEN st ELSE RootsTrace(GcBoxTrace(st, RootsVec[i]), i + 1)

RootsTraced == RootsTrace([status |-> status, grays |-> grays], 1)

\* size_of_val of every root
RootsSize ==
    LET RECURSIVE Sum(_)
        Sum(i) == IF i > Len(RootsVec) THEN 0 ELSE GcBoxSize(ty[RootsVec[i]]) + Sum(i + 1)
    IN  Sum(1)

\* the scan of the roots reads a rooted cell, or a cell it points at, that was
\* freed
RootsDangling ==
    \E i \in 1..Len(RootsVec) :
        \/ RootsVec[i] \in freed
        \/ StrongField(RootsVec[i]) # Null /\ StrongField(RootsVec[i]) \in freed

\* `while work > work_done as f64` fails: the debt is paid off
Root_LoopExit ==
    /\ pc = "collect"
    /\ ~ WorkLeft(work, work_done)
    /\ allocation_debt' = DebtSub(allocation_debt, work_done)
    /\ Return
    /\ UNCHANGED <<sideVars, sweep_born, cellVars, listVars, grayVars, total_allocated,
                   remembered_size, wakeup_total, phase, rootVars, held>>

\* Phase::Wake
Root_Wake ==
    /\ Running
    /\ phase = "Wake"
    /\ ~ RootsDangling
    /\ sweep_prev' = Null
    /\ status' = RootsTraced.status
    /\ grays' = RootsTraced.grays
    /\ work_done' = work_done + RootsSize
    /\ phase' = "Trace"
    /\ UNCHANGED <<sideVars, sweep_born, nalloc, ty, field, next, freed, all, sweep, grays_again, paceVars,
                   rootVars, held, pc, call, work>>

\* the trace of the payload of the popped cell p, then Black
MarkTraced(p) ==
    LET st == TracerMark([status |-> status, grays |-> Front(grays)], StrongField(p))
    IN  [st EXCEPT !.status[p] = "Traced"]

MarkDangling ==
    /\ grays # <<>>
    /\ \/ Last(grays) \in freed
       \/ StrongField(Last(grays)) # Null /\ StrongField(Last(grays)) \in freed

\* Phase::Mark, first arm: pop grays
Root_MarkGray ==
    /\ Running
    /\ phase = "Trace"
    /\ grays # <<>>
    /\ ~ MarkDangling
    /\ LET p == Last(grays)
       IN  /\ work_done' = work_done + GcBoxSize(ty[p])
           /\ status' = MarkTraced(p).status
           /\ grays' = MarkTraced(p).grays
    /\ UNCHANGED <<sideVars, sweep_born, nalloc, ty, field, next, freed, listVars, grays_again, paceVars,
                   phase, rootVars, held, pc, call, work>>

\* Phase::Mark with grays empty: the second pop is from grays again and finds
\* nothing; the roots are traced once more, and the phase moves on unless that
\* found a new gray cell
Root_MarkDone ==
    /\ Running
    /\ phase = "Trace"
    /\ grays = <<>>
    /\ ~ RootsDangling
    /\ status' = RootsTraced.status
    /\ grays' = RootsTraced.grays
    /\ IF RootsTraced.grays # <<>>
       THEN UNCHANGED <<phase, sweep>>
       ELSE phase' = "Sweep" /\ sweep' = all
    /\ UNCHANGED <<sideVars, sweep_born, nalloc, ty, field, next, freed, all, sweep_prev, grays_again,
                   paceVars, rootVars, held, callVars>>

\* Phase::Sweep on a White cell: unlink, count, drop, dealloc
Root_SweepFree ==
    /\ Running
    /\ phase = "Sweep"
    /\ sweep # Null
    /\ ~ SweepDangling
    /\ status[sweep] = "Untraced"
    /\ sweep' = next[sweep]
    /\ next' = [SweepUnlinkNext(sweep) EXCEPT ![sweep] = Null]
    /\ all' = SweepUnlinkAll(sweep)
    /\ total_allocated' = total_allocated - GcBoxSize(ty[sweep])
    /\ freed' = freed \cup {sweep}
    /\ field' = [field EXCEPT ![sweep] = Null]
    /\ UNCHANGED <<sideVars, sweep_born, nalloc, ty, status, sweep_prev, grayVars, remembered_size,
                   wakeup_total, allocation_debt, phase, rootVars, held, callVars>>

\* Phase::Sweep on a cell that survives
Root_SweepKeep ==
    /\ Running
    /\ phase = "Sweep"
    /\ sweep # Null
    /\ ~ SweepDangling
    /\ status[sweep] # "Untraced"
    /\ sweep' = next[sweep]
    /\ remembered_size' = remembered_size + GcBoxSize(ty[sweep])
    /\ status' = [status EXCEPT ![sweep] = "Untraced"]
    /\ sweep_prev' = sweep
    /\ UNCHANGED <<sideVars, sweep_born, nalloc, ty, field, next, freed, all, grayVars, total_allocated,
                   wakeup_total, allocation_debt, phase, rootVars, held, callVars>>

\* Phase::Sweep with the cursor at the end, Phase::Sleep => break, and the
\* debt after the loop: (0.0 - work_done).max(0.0)
Root_SweepDone ==
    /\ Running
    /\ phase = "Sweep"
    /\ sweep = Null
    /\ phase' = "Sleep"
    /\ allocation_debt' = 0
    /\ wakeup_total' = NextWakeup
    /\ Return
    /\ sweep_born' = {}
    /\ UNCHANGED <<sideVars, cellVars, listVars, grayVars, total_allocated, remembered_size,
                   rootVars, held>>

\* a step of Root::collect that reads storage which was already handed back
Root_UseAfterFree ==
    /\ Running
    /\ \/ phase = "Wake" /\ RootsDangling
       \/ phase = "Trace" /\ (IF grays # <<>> THEN MarkDangling ELSE RootsDangling)
       \/ phase = "Sweep" /\ SweepDangling
    /\ pc' = "undefined"
    /\ UNCHANGED <<sideVars, sweep_born, cellVars, listVars, grayVars, paceVars, phase, rootVars, held,
                   call, work, work_done>>

\* ------------------------------------------------------------ the marker
\* UnsafeMarker::mark(ptr) and Tracer::mark(gc), called on cell c by the trace
\* of a payload; its type is known
UnsafeMarker_mark(c) ==
    /\ ret = NoCall
    /\ ret' = [fn |-> "mark", panic |-> FALSE, out |-> <<c>>]
    /\ status' = (IF MarkFires(c) THEN [status EXCEPT ![c] = "Marked"] ELSE status)
    /\ grays' = (IF MarkPushes(c) THEN Append(grays, c) ELSE grays)
    /\ UNCHANGED <<scopeVars, v_table, data_ptr, sweep_born, nalloc, ty, field, next, freed, listVars,
                   grays_again, paceVars, phase, rootVars, held, callVars>>

\* UnsafeMarker::mark_erased(ptr) and Tracer::mark_dynamic(gc): the type of
\* the cell is not known
UnsafeMarker_mark_erased(c) ==
    /\ ret = NoCall
    /\ ret' = [fn |-> "mark_erased", panic |-> FALSE, out |-> <<c>>]
    /\ status' = (IF MarkFires(c) THEN [status EXCEPT ![c] = "Marked"] ELSE status)
    /\ grays' = (IF MarkFires(c) THEN Append(grays, c) ELSE grays)
    /\ UNCHANGED <<scopeVars, v_table, data_ptr, sweep_born, nalloc, ty, field, next, freed, listVars,
                   grays_again, paceVars, phase, rootVars, held, callVars>>

\* the marker has returned to the trace that called it
MarkerReturn ==
    /\ ret.fn \in {"mark", "mark_erased"}
    /\ ret' = NoCall
    /\ UNCHANGED <<scopeVars, v_table, data_ptr, arenaVars>>

\* the cells in the order of their allocation
CellSeq == [i \in 1..MaxCells |-> i]

\* a collect_full in the middle of its Trace phase, on an arena that holds
\* MaxCells cells without pointers, of every type and in every status; the
\* Marked cells of a traced type are on grays
InitMarker ==
    /\ nalloc = MaxCells
    /\ ty \in [Cells -> Types]
    /\ field = [c \in Cells |-> Null]
    /\ status \in [Cells -> Statuses]
    /\ next = [c \in Cells |-> c - 1]
    /\ freed = {}
    /\ all = MaxCells
    /\ sweep = Null
    /\ sweep_prev = Null
    /\ grays = SelectSeq(CellSeq, LAMBDA c : status[c] = "Marked" /\ needs_trace(ty[c]))
    /\ grays_again = <<>>
    /\ total_allocated = 0
    /\ remembered_size = 0
    /\ wakeup_total = MIN_SLEEP
    /\ allocation_debt = Inf
    /\ phase = "Trace"
    /\ gnext = [l \in Links |-> NoLink]
    /\ gprev = [l \in Links |-> NoLink]
    /\ gvalue = [g \in Guards |-> Null]
    /\ gstate = [g \in Guards |-> "new"]
    /\ held = {}
    /\ pc = "collect"
    /\ call = "full"
    /\ work = Inf
    /\ work_done = 0
    /\ sweep_born = {}
    /\ ret = NoCall
    /\ v_table = VTableAlign
    /\ data_ptr = v_table
    /\ ScopedNew

Marking == \E c \in Cells : UnsafeMarker_mark(c)

MarkingErased == \E c \in Cells : UnsafeMarker_mark_erased(c)

NextMarker ==
    \/ Marking
    \/ MarkingErased
    \/ MarkerReturn

SpecMarker == InitMarker /\ [][NextMarker]_vars

\* ----------------------------------------------------------- specifications
Alloc == \E t \in Types, f \in Cells \cup {Null} : Add(t, f)
Rooting == \E g \in Guards, c \in Cells : Root(g, c)
Relinking == \E g \in Guards, c \in Cells : RootRelink(g, c)
Unrooting == \E g \in Guards : DropGuard(g)
Barrier == \E c \in Cells, via \in Vias : WriteBarrier(c, via)
Mutation == \E c \in Cells, d \in Cells \cup {Null}, via \in Vias : BorrowMutSet(c, d, via)

\* one iteration of the loop of collect
Step ==
    \/ LoopExit
    \/ WakeStep
    \/ TraceGray
    \/ TraceDone
    \/ SweepFree
    \/ SweepKeep
    \/ SweepDone
    \/ UseAfterFree

\* a host that allocates, roots with fresh guards, drops guards, borrows
\* mutably (barrier first) and stores pointers, collects, and drops the arena
Next ==
    \/ Alloc
    \/ Rooting
    \/ Unrooting
    \/ Barrier
    \/ Mutation
    \/ Collect
    \/ CollectFull
    \/ DropArena
    \/ Step
    \/ TraceGrayAgain

Spec == Init /\ [][Next]_vars

\* the same host when it never mutates a payload after allocation
NextFrozen ==
    \/ Alloc
    \/ Rooting
    \/ Unrooting
    \/ Collect
    \/ CollectFull
    \/ DropArena
    \/ Step

SpecFrozen == Init /\ [][NextFrozen]_vars

\* a host that allocates and collects for ever, rooting and dropping roots in
\* between; it never asks for a full collection.  A call of collect that has
\* been entered runs its loop, and the host always comes back to collect.
NextPaced ==
    \/ Alloc
    \/ Rooting
    \/ Unrooting
    \/ Collect
    \/ Step

\* the arena after `new()` and a first `collect_full()`: nothing allocated,
\* the phase is Sleep
InitAsleep ==
    /\ InitFields
    /\ phase = "Sleep"
    /\ ret = NoCall
    /\ v_table = VTableAlign
    /\ data_ptr = v_table
    /\ ScopedNew

SpecPaced == InitAsleep /\ [][NextPaced]_vars /\ WF_vars(Collect) /\ WF_vars(Step)

\* a host of the older arena `Root`: it allocates, roots and drops roots in
\* stack order, borrows mutably and stores pointers, and collects
Root_Alloc == \E t \in Types, f \in Cells \cup {Null} : Root_add(t, f)
Root_Rooting == \E c \in Cells : Root_root_gc(c)
Root_Mutation == \E c \in Cells, d \in Cells \cup {Null} : Root_borrow_mut_set(c, d)

Root_Step ==
    \/ Root_LoopExit
    \/ Root_Wake
    \/ Root_MarkGray
    \/ Root_MarkDone
    \/ Root_SweepFree
    \/ Root_SweepKeep
    \/ Root_SweepDone
    \/ Root_UseAfterFree

NextRoot ==
    \/ Root_Alloc
    \/ Root_Rooting
    \/ RootGuard_drop
    \/ Root_Mutation
    \/ Root_collect
    \/ Root_Step

\* Root::new: as UnsafeArena::new, but the phase is Sleep
SpecRoot == InitAsleep /\ [][NextRoot]_vars

\* a host that also roots through a guard that is linked already
NextRelink ==
    \/ Alloc
    \/ Rooting
    \/ Relinking
    \/ Unrooting
    \/ Collect
    \/ CollectFull
    \/ Step
    \/ WakeEndless

SpecRelink == Init /\ [][NextRelink]_vars

\* a host that never mutates a payload and also allocates cells that hold a
\* weak reference
AllocWeak == \E f \in Cells : Add("Weak", f)

NextWeak ==
    \/ Alloc
    \/ AllocWeak
    \/ Rooting
    \/ Unrooting
    \/ Collect
    \/ CollectFull
    \/ Step

SpecWeak == Init /\ [][NextWeak]_vars

\* ------------------------------------------------------------- GcDataPtr
\* addresses whose two low bits are zero
VTableAddrs == {4 * k : k \in 1..MaxVTables}

\* Status as u8
StatusCode(s) ==
    CASE s = "Untraced" -> 0
      [] s = "Marked" -> 1
      [] s = "MarkedWeak" -> 2
      [] s = "Traced" -> 3

\* transmute of the two status bits to Status
StatusOfCode(n) == CHOOSE s \in Statuses : StatusCode(s) = n

\* a | b on machine words
RECURSIVE BitOr(_, _)
BitOr(a, b) ==
    IF a = 0 THEN b
    ELSE IF b = 0 THEN a
    ELSE 2 * BitOr(a \div 2, b \div 2) + Max(a % 2, b % 2)

\* w & !0b11
ClearLow(w) == w - (w % 4)

\* GcDataPtr::as_ptr
GcDataPtr_as_ptr(w) == ClearLow(w)

\* GcDataPtr::status
GcDataPtr_status(w) == StatusOfCode(w % 4)

\* a set_status that does not clear the old status bits
GcDataPtr_set_status_unmasked(w, s) == BitOr(w, StatusCode(s))

\* GcDataPtr::set_status
GcDataPtr_set_status(w, s) == BitOr(ClearLow(w), StatusCode(s))

SetStatus(s) ==
    /\ data_ptr' = GcDataPtr_set_status(data_ptr, s)
    /\ UNCHANGED <<scopeVars, ret, v_table, arenaVars>>

\* ------------------------------------------------------------------ rebind
Bytes == {0, 1}

\* the representations of a value of a type of 1..MaxSize bytes
Values == UNION {[1..n -> Bytes] : n \in 1..MaxSize}

\* a rebind that does not compare the sizes
RebindNeverPanics(v, n) == FALSE

\* assert_eq!(size_of::<T>(), size_of::<T::Rebound>())
RebindPanics(v, n) == Len(v) # n

\* union Transmute: field b, of n bytes, read after field a was written with v;
\* bytes of b that a does not cover are uninitialized
TransmuteReads(v, n) ==
    {b \in [1..n -> Bytes] : \A i \in 1..n : i <= Len(v) => b[i] = v[i]}

\* rebind(v) where T::Rebound has n bytes
Rebind(v, n) ==
    /\ pc = "idle"
    /\ ret = NoCall
    /\ IF RebindPanics(v, n)
       THEN ret' = [fn |-> "rebind", panic |-> TRUE, out |-> <<>>]
       ELSE \E b \in TransmuteReads(v, n) :
                ret' = [fn |-> "rebind", panic |-> FALSE, out |-> b]
    /\ UNCHANGED <<scopeVars, v_table, data_ptr, arenaVars>>

InitUnits ==
    /\ InitArena
    /\ ret = NoCall
    /\ v_table \in VTableAddrs
    /\ data_ptr = v_table
    /\ ScopedNew

SettingStatus == \E s \in Statuses : SetStatus(s)

Rebinding == \E v \in Values, n \in 1..MaxSize : Rebind(v, n)

NextUnits ==
    \/ SettingStatus
    \/ Rebinding
    \/ EndBorrow

SpecUnits == InitUnits /\ [][NextUnits]_vars

\* a host that never stores a pointer after allocation, and borrows mutably
\* through borrow_mut_untraced, borrow_mut_2 and borrow_mut_3
BorrowingUntraced == \E c \in Cells : BorrowMutUntraced(c)
Borrowing2 == \E a, b \in Cells : BorrowMut2(a, b)
Borrowing3 == \E a, b, c \in Cells : BorrowMut3(a, b, c)

NextBorrow ==
    \/ Alloc
    \/ Rooting
    \/ Unrooting
    \/ Collect
    \/ CollectFull
    \/ Step
    \/ TraceGrayAgain
    \/ BorrowingUntraced
    \/ Borrowing2
    \/ Borrowing3
    \/ EndBorrow

SpecBorrow == Init /\ [][NextBorrow]_vars

\* a mutating host that roots only between cycles, never while a cycle is
\* paused in Trace
RootingEarly == \E g \in Guards, c \in Cells : phase # "Trace" /\ Root(g, c)

NextEarly ==
    \/ Alloc
    \/ RootingEarly
    \/ Unrooting
    \/ Barrier
    \/ Mutation
    \/ Collect
    \/ CollectFull
    \/ Step
    \/ TraceGrayAgain

SpecEarly == Init /\ [][NextEarly]_vars

\* ------------------------------------------- ScopedArena (scoped/mod.rs)
\* The scoped arena owns an UnsafeArena and one GcBox<ScopedGuards> that is no
\* cell of that arena: it is on no all-list.  `with` pins it through a guard
\* of its own, and every ArenaScope::add pushes the new cell on its Vec.  held
\* is the set of Gc<'own, T> the closure of the running `with` was given.

\* the GcBox<ScopedGuards> of ScopedArena::roots
RootsBox == MaxCells + 1

\* Layout::new::<ScopedGuards>().size(): a Vec is three words
ScopedGuardsSize == 24

\* the guard `pin!(UnsafeRootGuard::new())` of a `with` call: a local, whose
\* storage is free again when the call has returned
WithGuard == 1

\* ScopedArena::with, up to the call of f: read the length, pin the roots
With_enter ==
    /\ pc = "idle"
    /\ with_len = NoWith
    /\ gstate[WithGuard] = "new"
    /\ with_len' = Len(roots)
    /\ gvalue' = [gvalue EXCEPT ![WithGuard] = RootsBox]
    /\ gnext' = LinkNext(WithGuard)
    /\ gprev' = LinkPrev(WithGuard)
    /\ gstate' = [gstate EXCEPT ![WithGuard] = "linked"]
    /\ UNCHANGED <<roots, roots_status, ret, v_table, data_ptr, sweep_born, cellVars, listVars,
                   grayVars, paceVars, phase, held, callVars>>

\* (*self.roots.value.get()).0.drain(..len)
Drained(q, len) == SubSeq(q, len + 1, Len(q))

\* ScopedArena::with, from the return of f: drain the Vec, then the guard and
\* every Gc<'own, T> go out of scope
With_exit ==
    /\ pc = "idle"
    /\ with_len # NoWith
    /\ roots' = Drained(roots, with_len)
    /\ with_len' = NoWith
    /\ held' = {}
    /\ gprev' = [UnlinkPrev(WithGuard) EXCEPT ![WithGuard] = NoLink]
    /\ gnext' = [UnlinkNext(WithGuard) EXCEPT ![WithGuard] = NoLink]
    /\ gvalue' = [gvalue EXCEPT ![WithGuard] = Null]
    /\ gstate' = [gstate EXCEPT ![WithGuard] =
                    IF PointedAt(WithGuard, gnext', gprev') THEN "dropped" ELSE "new"]
    /\ UNCHANGED <<roots_status, ret, v_table, data_ptr, sweep_born, cellVars, listVars,
                   grayVars, paceVars, phase, callVars>>

\* ArenaScope::add(value): UnsafeArena::add, then push the pointer on the Vec
Scope_add(t, f) ==
    /\ pc = "idle"
    /\ with_len # NoWith
    /\ nalloc < MaxCells
    /\ f \in (IF needs_trace(t) THEN held \cup {Null} ELSE {Null})
    /\ LET c == nalloc + 1
           total == total_allocated + BoxSize(t)
           ph == AddPhase(phase, total)
       IN  /\ nalloc' = c
           /\ ty' = [ty EXCEPT ![c] = t]
           /\ field' = [field EXCEPT ![c] = f]
           /\ status' = [status EXCEPT ![c] = "Untraced"]
           /\ next' = [next EXCEPT ![c] = all]
           /\ all' = c
           /\ total_allocated' = total
           /\ phase' = ph
           /\ allocation_debt' = AddDebt(ph, BoxSize(t))
           /\ sweep_prev' = AddSweepPrev(ph, c)
           /\ held' = held \cup {c}
           /\ sweep_born' = (IF ph = "Sweep" THEN sweep_born \cup {c} ELSE sweep_born)
           /\ roots' = Append(roots, c)
    /\ UNCHANGED <<roots_status, with_len, ret, v_table, data_ptr, freed, sweep, grays,
                   grays_again, remembered_size, wakeup_total, rootVars, callVars>>

\* ArenaScope::collect: `self.arena.arena.collect()`; the handles of the scope
\* stay in use
Scope_collect ==
    /\ pc = "idle"
    /\ with_len # NoWith
    /\ UNCHANGED <<sideVars, sweep_born, cellVars, listVars, grayVars, paceVars, phase, rootVars,
                   held>>
    /\ CollectEnter("scoped_collect")

\* ArenaScope::collect_full: `self.arena.arena.collect()` as well
Scope_collect_full ==
    /\ pc = "idle"
    /\ with_len # NoWith
    /\ UNCHANGED <<sideVars, sweep_born, cellVars, listVars, grayVars, paceVars, phase, rootVars,
                   held>>
    /\ CollectEnter("scoped_full")

\* the trace of the roots box is next: it is last on grays
RootsBoxNext == grays # <<>> /\ Last(grays) = RootsBox

\* Phase::Wake of a scoped arena: the one pinned box is Marked and pushed
Scoped_Wake ==
    /\ Running
    /\ phase = "Wake"
    /\ ~ RootWalkEndless
    /\ sweep_prev' = Null
    /\ status' = WakeStatus
    /\ roots_status' = (IF Len(WakeRoots) > 0 THEN "Marked" ELSE roots_status)
    /\ grays' = grays \o WakeRoots
    /\ phase' = "Trace"
    /\ UNCHANGED <<roots, with_len, ret, v_table, data_ptr, sweep_born, nalloc, ty, field, next,
                   freed, all, sweep, grays_again, paceVars, rootVars, held, callVars>>

\* ScopedGuards::trace: marker.mark_erased(v) for every v of the Vec, from
\* entry i on, on the statuses and the gray stack in st
RECURSIVE ScopedGuards_trace(_, _)
ScopedGuards_trace(st, i) ==
    IF i > Len(roots) THEN st
    ELSE LET v == roots[i]
             s1 == IF st.status[v] = "Untraced"
                   THEN [status |-> [st.status EXCEPT ![v] = "Marked"],
                         grays |-> Append(st.grays, v)]
                   ELSE st
         IN  ScopedGuards_trace(s1, i + 1)

\* the trace of the roots box reads a cell that was freed: undefined
\* behaviour.  It takes four allocations to get there (two Node cells to pause
\* a cycle in Trace, a third cell for that cycle to free, a fourth to wake the
\* next cycle); no step is taken from there
ScopedGuardsDangling == \E i \in 1..Len(roots) : roots[i] \in freed

\* Phase::Trace, first arm, when the popped pointer is the roots box
Scoped_TraceRoots ==
    /\ Running
    /\ phase = "Trace"
    /\ RootsBoxNext
    /\ ~ ScopedGuardsDangling
    /\ LET st == ScopedGuards_trace([status |-> status, grays |-> Front(grays)], 1)
       IN  /\ status' = st.status
           /\ grays' = st.grays
    /\ work_done' = work_done + ScopedGuardsSize
    /\ roots_status' = "Traced"
    /\ UNCHANGED <<roots, with_len, ret, v_table, data_ptr, sweep_born, nalloc, ty, field, next,
                   freed, listVars, grays_again, paceVars, phase, rootVars, held, pc, call, work>>

\* Phase::Trace, first arm, when the popped pointer is a cell of the arena
Scoped_TraceGray == ~ RootsBoxNext /\ TraceGray

Scope_Alloc == \E t \in Types, f \in Cells \cup {Null} : Scope_add(t, f)

Scoped_Step ==
    \/ LoopExit
    \/ Scoped_Wake
    \/ Scoped_TraceRoots
    \/ Scoped_TraceGray
    \/ TraceDone
    \/ SweepFree
    \/ SweepKeep
    \/ SweepDone

\* a host of the scoped arena: one `with` call after the other, and inside
\* each it allocates and asks for collections
NextScoped ==
    \/ With_enter
    \/ With_exit
    \/ Scope_Alloc
    \/ Scope_collect
    \/ Scope_collect_full
    \/ Scoped_Step

\* ScopedArena::new: UnsafeArena::new and an empty Vec
SpecScoped == Init /\ [][NextScoped]_vars

\* ------------------------------------------------------------- properties
\* the step on which a call of the given kind returns to the host
ReturnsFrom(kind) == pc = "collect" /\ call = kind /\ pc' = "idle"

\* the arena has not been dropped and is not being dropped
ArenaAlive == call # "drop" /\ pc # "dropped"

\* C1 (reachability soundness without mutation): while the arena lives, no
\* cell pinned by a live root guard, and no cell reachable from such a cell
\* through payload pointers, has been freed
C1_RootedNeverFreed == ArenaAlive => Reach(RootVals) \cap freed = {}

\* C2 (write-barrier sufficiency): with every payload mutation preceded by the
\* barrier, when collect_full returns no cell reachable from a rooted cell has
\* been freed
C2_BarrierSufficient ==
    [][ReturnsFrom("full") => (Reach(RootVals) \cap freed = {})']_vars

\* C3 (collect_full completeness): when collect_full returns, every cell that
\* is still allocated, and every cell on the all-list, is reachable from a
\* live root guard
C3_FullCollectsAll ==
    [][ReturnsFrom("full") =>
        (Live \subseteq Reach(RootVals) /\ AllSet \subseteq Reach(RootVals))']_vars

\* C4 (collect_full terminates): a call of collect_full never gets to a point
\* from which it cannot return, and when it returns the phase is Sleep and the
\* allocation debt is 0
C4_CollectFullReturns ==
    [][/\ call = "full" => pc' \notin {"hung", "undefined"}
       /\ ReturnsFrom("full") => (phase' = "Sleep" /\ allocation_debt' = 0)]_vars

\* C5 (finalization on arena drop): once the arena has been dropped no cell is
\* left allocated and the all-list is empty
C5_DropFinalizesAll == pc = "dropped" => (Live = {} /\ all = Null)

\* C6 (phase monotonicity): the phase changes only along
\* Sleep -> Wake -> Trace -> Sweep -> Sleep
PhaseOrder ==
    {<<"Sleep", "Wake">>, <<"Wake", "Trace">>, <<"Trace", "Sweep">>, <<"Sweep", "Sleep">>}

C6_PhaseMonotone == [][phase' # phase => <<phase, phase'>> \in PhaseOrder]_vars

\* C7 (write barrier re-grays): for a cell of a traceable type that is Traced
\* while the phase is Trace, write_barrier leaves the cell Marked and last on
\* grays_again, whichever way the host reaches the barrier
C7_BarrierRegrays ==
    \A c \in Accessible, via \in Vias :
        (pc = "idle" /\ needs_trace(ty[c]) /\ phase = "Trace" /\ status[c] = "Traced")
            => /\ BarrierStatus(c, via)[c] = "Marked"
               /\ BarrierGraysAgain(c, via) = Append(grays_again, c)

\* C8 (borrow_mut fires the barrier first): a Traced cell that the host borrows
\* mutably through scoped::Gc::borrow_mut while the phase is Trace is Marked
\* and on grays_again when the host writes its payload
C8_BorrowMutBarrier ==
    [][\A c \in Cells, d \in Cells \cup {Null} :
        (BorrowMutSet(c, d, "scoped") /\ phase = "Trace" /\ status[c] = "Traced")
            => /\ status'[c] = "Marked"
               /\ \E i \in 1..Len(grays_again') : grays_again'[i] = c]_vars

\* C9 (cells born during Sweep survive it): a cell allocated while the phase is
\* Sweep is not freed before the phase next becomes Sleep
C9_SweepBornSurvive == sweep_born \cap freed = {}

\* C10 (tri-color invariant): while the phase is Trace no Traced cell holds a
\* pointer to an Untraced cell
C10_TriColor ==
    phase = "Trace" =>
        \A c \in Live :
            (status[c] = "Traced" /\ field[c] # Null) => status[field[c]] # "Untraced"

\* the execution has not read storage that was handed back
Defined == pc # "undefined"

\* C11 (all-list integrity): the next-chain from `all` ends at null without
\* repeating a cell, and holds exactly the cells that are allocated and not
\* freed
C11_AllListIntegrity ==
    Defined =>
        /\ Len(AllChain) <= MaxCells
        /\ \A i, j \in 1..Len(AllChain) : AllChain[i] = AllChain[j] => i = j
        /\ AllSet = Live

\* a sweep has freed a cell that sat behind a kept one: a live cell's next link
\* skips over the freed cell
C11_Witness ==
    /\ freed # {}
    /\ Cardinality(Live) >= 2
    /\ \E c \in Live : next[c] # Null /\ \E d \in freed : d > next[c] /\ d < c

\* the root list as a walk from the sentinel finds it
ChainSet == {RootChain[i] : i \in 1..Len(RootChain)}

Without(q, g) == SelectSeq(q, LAMBDA x : x # g)

\* the walk visits exactly the linked guards, once each, and the links of
\* every linked guard are mutual
RootListShape ==
    /\ ~ RootWalkEndless
    /\ ChainSet = LinkedGuards
    /\ Len(RootChain) = Cardinality(LinkedGuards)
    /\ \A g \in LinkedGuards :
        /\ gprev[g] # NoLink /\ gnext[gprev[g]] = g
        /\ gnext[g] # NoLink => gprev[gnext[g]] = g

\* C12 (root list shape): with fresh guards only, while the arena lives the
\* list has the shape above, a root puts its guard first and leaves the rest
\* of the walk as it was (so the walk is in reverse link order), and a drop
\* removes only the dropped guard from the walk
C12_RootListShape ==
    [][ArenaAlive' =>
        /\ RootListShape'
        /\ \A g \in Guards :
            /\ (\E c \in Cells : Root(g, c)) => RootChain' = <<g>> \o RootChain
            /\ DropGuard(g) => RootChain' = Without(RootChain, g)]_vars

\* the older of two guards was dropped first and a fresh guard was linked in
\* its place: the walk meets the newer link first
C12_Witness == RootChain = <<1, 2>> /\ gvalue[1] # gvalue[2]

\* a call that panicked handed out nothing and changed no status and no stack
PanicOnly == ret'.panic /\ ret'.out = <<>> /\ UNCHANGED <<status, grays, grays_again>>

\* C13 (borrow_mut_untraced): on a cell of a traceable type the call panics and
\* hands out no reference; on any other cell it hands out the reference; no
\* status and no gray stack changes either way
C13_BorrowMutUntraced ==
    [][ret'.fn = "borrow_mut_untraced" =>
       \A c \in Cells :
        BorrowMutUntraced(c) =>
            /\ UNCHANGED <<status, grays, grays_again>>
            /\ IF needs_trace(ty[c]) THEN PanicOnly
               ELSE ~ ret'.panic /\ ret'.out = <<c>>]_vars

\* borrow_mut_untraced has panicked on a cell that holds pointers
C13_Witness ==
    /\ ret.fn = "borrow_mut_untraced"
    /\ ret.panic
    /\ \E c \in Accessible : needs_trace(ty[c])

\* C14 (borrow_mut_2 / borrow_mut_3 on the same cell): when two of the
\* pointers are the same cell the call panics before any barrier fires, so it
\* hands out nothing and changes no status and no gray stack
C14_SameCellPanics ==
    [][/\ ret'.fn = "borrow_mut_2" =>
            \A a \in Cells : BorrowMut2(a, a) => PanicOnly
       /\ ret'.fn = "borrow_mut_3" =>
            \A a, b, c \in Cells :
                ((a = b \/ a = c \/ b = c) /\ BorrowMut3(a, b, c)) => PanicOnly]_vars

\* borrow_mut_3 has panicked in a state where a barrier on a cell the host can
\* name would have fired
C14_Witness ==
    /\ ret.fn = "borrow_mut_3"
    /\ ret.panic
    /\ \E c \in Accessible : RootBarrierFires(c)

\* C15 (weak marking at sweep): a sweep step on a cell whose status is
\* MarkedWeak unlinks and frees the cell
C15_WeakSwept ==
    [][(Running /\ phase = "Sweep" /\ sweep # Null /\ sweep' # sweep
            /\ status[sweep] = "MarkedWeak")
        => (sweep \in freed' /\ sweep \notin AllSet')]_vars

\* C16 (pacing remainder): when a call of collect that started with a debt of
\* `work` returns without having reached Sleep, the allocation debt is
\* max(0, work - work_done)
C16_PacingRemainder ==
    [][(ReturnsFrom("collect") /\ phase' # "Sleep")
        => allocation_debt' = Max(0, work - 3 * work_done)]_vars

\* C17 (leaving Sleep): a step that takes the phase out of Sleep is an add that
\* makes total_allocated greater than wakeup_total, and then the phase is Wake,
\* or it is a collect_full; an add in Sleep that leaves total_allocated at most
\* wakeup_total keeps the phase Sleep and the allocation debt as it was
C17_LeavesSleep ==
    [][phase = "Sleep" =>
        /\ phase' # "Sleep" =>
            \/ nalloc' # nalloc /\ total_allocated' > wakeup_total /\ phase' = "Wake"
            \/ CollectFull
            \/ DropArena
        /\ (nalloc' # nalloc /\ total_allocated' <= wakeup_total) =>
            (phase' = "Sleep" /\ allocation_debt' = allocation_debt)]_vars

\* the arena sleeps and has allocated since it went to sleep
C17_Witness ==
    /\ phase = "Sleep"
    /\ total_allocated <= wakeup_total
    /\ total_allocated + Max(HalfRounded(remembered_size), MIN_SLEEP) > wakeup_total

\* C18 (packed metadata round trip): after any sequence of set_status calls on
\* the packed word of a v-table address with two zero low bits, the word still
\* yields that address, and a further set_status(s) makes status() return s
\* and leaves the address unchanged
C18_PackedRoundTrip ==
    /\ GcDataPtr_as_ptr(data_ptr) = v_table
    /\ \A s \in Statuses :
        LET w == GcDataPtr_set_status(data_ptr, s)
        IN  GcDataPtr_status(w) = s /\ GcDataPtr_as_ptr(w) = v_table

\* a word that carries the status Traced next to an address of which only the
\* two low bits are zero
C18_Witness ==
    /\ v_table % 8 = 4
    /\ GcDataPtr_status(data_ptr) = "Traced"

\* C20 (rebind): a rebind to a type of another size panics and returns nothing,
\* a rebind to a type of the same size returns the bytes it was given
C20_RebindSameBytes ==
    [][ret'.fn = "rebind" =>
        \A v \in Values, n \in 1..MaxSize :
            Rebind(v, n) =>
                IF Len(v) # n
                THEN ret'.panic /\ ret'.out = <<>>
                ELSE ~ ret'.panic /\ ret'.out = v]_vars

\* a rebind has returned a value of more than one byte, not all bytes equal
C20_Witness ==
    /\ ret.fn = "rebind"
    /\ ~ ret.panic
    /\ Len(ret.out) > 1
    /\ ret.out[1] # ret.out[2]

\* C21 (progress of an incremental cycle): for a host that keeps allocating
\* and collecting, a cycle that has woken ends: from the phase Wake the arena
\* gets to the phase Sleep
C21_CycleEnds == (phase = "Wake") ~> (phase = "Sleep")

\* a Wake step of collect, in either arena, while the arena lives
WakeTaken == ArenaAlive /\ Running /\ phase = "Wake" /\ phase' = "Trace"

\* what a step pushed onto grays
Pushed == SubSeq(grays', Len(grays) + 1, Len(grays'))
PushedSet == {Pushed[i] : i \in 1..Len(Pushed)}
GraysExtended == Len(grays') >= Len(grays) /\ SubSeq(grays', 1, Len(grays)) = grays

MarkTaken == Running /\ phase = "Trace" /\ pc' = "collect"

\* C23 (Mark step order): a Mark step pops from grays when grays is not empty
\* and otherwise from grays_again, and sets the popped cell to Traced; so the
\* cells the write barrier pushed onto grays_again are popped before the phase
\* moves to Sweep
C23_MarkOrder ==
    [][MarkTaken =>
        /\ grays # <<>> =>
            /\ status'[Last(grays)] = "Traced"
            /\ grays_again' = grays_again
            /\ Len(grays') >= Len(grays) - 1
            /\ SubSeq(grays', 1, Len(grays) - 1) = Front(grays)
        /\ (grays = <<>> /\ grays_again # <<>>) =>
            /\ status'[Last(grays_again)] = "Traced"
            /\ grays_again' = Front(grays_again)
            /\ phase' = "Trace"]_vars

\* C24 (Mark ends only on empty stacks): a step that moves the phase from Mark
\* to Sweep finds grays and grays_again empty and sets sweep to `all` and
\* remembered_size to 0; while the phase is Sweep or Sleep both stacks are
\* empty
C24_MarkEnds ==
    [][/\ (phase = "Trace" /\ phase' = "Sweep") =>
            /\ grays = <<>>
            /\ grays_again = <<>>
            /\ sweep' = all
            /\ remembered_size' = 0
       /\ phase' \in {"Sweep", "Sleep"} => (grays' = <<>> /\ grays_again' = <<>>)]_vars

\* how often cell c is on the stack q
Count(q, c) == Cardinality({i \in 1..Len(q) : q[i] = c})

\* the cell the marker was called on
MarkedCell == ret'.out[1]

\* C25 as stated (marker contract): the marker changes nothing on a cell that
\* is not Untraced; it sets an Untraced cell to Marked and pushes it onto grays
\* if and only if the payload type needs tracing; no cell is on grays twice
C25_MarkerContract ==
    [][ret'.fn \in {"mark", "mark_erased"} =>
        /\ grays_again' = grays_again
        /\ IF status[MarkedCell] # "Untraced"
           THEN UNCHANGED <<status, grays>>
           ELSE /\ status' = [status EXCEPT ![MarkedCell] = "Marked"]
                /\ grays' = (IF needs_trace(ty[MarkedCell])
                             THEN Append(grays, MarkedCell) ELSE grays)
        /\ \A c \in Cells : Count(grays', c) <= 1]_vars

\* C25 amended (marker contract): as stated, except that mark_erased, which
\* does not know the payload type, pushes every cell it marks
C25_MarkerContractErased ==
    [][ret'.fn \in {"mark", "mark_erased"} =>
        /\ grays_again' = grays_again
        /\ IF status[MarkedCell] # "Untraced"
           THEN UNCHANGED <<status, grays>>
           ELSE /\ status' = [status EXCEPT ![MarkedCell] = "Marked"]
                /\ grays' = (IF ret'.fn = "mark_erased" \/ needs_trace(ty[MarkedCell])
                             THEN Append(grays, MarkedCell) ELSE grays)
        /\ \A c \in Cells : Count(grays', c) <= 1]_vars

\* the marker was called on a cell that was on grays already, and the marker
\* pushed a cell whose type needs no tracing
C25_Witness ==
    /\ ret.fn = "mark_erased"
    /\ status[ret.out[1]] = "Marked"
    /\ needs_trace(ty[ret.out[1]])
    /\ Count(grays, ret.out[1]) = 1
    /\ \E c \in Cells : ~ needs_trace(ty[c]) /\ Count(grays, c) = 1
    /\ Last(grays) # ret.out[1]

\* a Sweep step of collect with the cursor on a cell, that the call survives
SweepTaken == Running /\ phase = "Sweep" /\ sweep # Null /\ pc' = "collect"

C27_SurvivorsReset ==
    [][/\ (SweepTaken /\ status[sweep] # "Untraced") =>
            /\ freed' = freed
            /\ sweep \in AllSet'
            /\ status' = [status EXCEPT ![sweep] = "Untraced"]
            /\ sweep_prev' = sweep
       /\ phase' = "Sleep" => \A c \in AllSet' : status'[c] = "Untraced"]_vars

\* the arena sleeps after a sweep that kept a cell
C27_Witness ==
    /\ phase = "Sleep"
    /\ pc = "idle"
    /\ sweep_prev # Null
    /\ sweep_prev \in AllSet
    /\ remembered_size > 0

\* C28 (end of sweep): a Sweep step that finds the cursor null sets
\* wakeup_total to total_allocated + max(MIN_SLEEP, round(remembered_size / 2)),
\* the allocation debt to 0 and the phase to Sleep, so that total_allocated is
\* then at most wakeup_total - MIN_SLEEP
C28_EndOfSweep ==
    [][(Running /\ phase = "Sweep" /\ sweep = Null) =>
        /\ phase' = "Sleep"
        /\ allocation_debt' = 0
        /\ wakeup_total' =
            total_allocated + (IF HalfRounded(remembered_size) > MIN_SLEEP
                               THEN HalfRounded(remembered_size) ELSE MIN_SLEEP)
        /\ total_allocated' <= wakeup_total' - MIN_SLEEP]_vars

\* the arena sleeps after a cycle whose survivors put the threshold more than
\* MIN_SLEEP above total_allocated
C28_Witness ==
    /\ phase = "Sleep"
    /\ pc = "idle"
    /\ HalfRounded(remembered_size) > MIN_SLEEP
    /\ wakeup_total = total_allocated + HalfRounded(remembered_size)

\* a step of the loop of collect that visits a cell or a root
VisitTaken ==
    /\ Running
    /\ pc' = "collect"
    /\ \/ phase = "Wake" /\ RootVals # {} /\ ArenaAlive
       \/ phase = "Trace" /\ (grays # <<>> \/ grays_again # <<>>)
       \/ phase = "Sweep" /\ sweep # Null

\* C29 (work accounting): every step of collect that visits a cell, and the
\* Wake step when there are roots, adds to work_done
C29_WorkCounted == [][VisitTaken => work_done' > work_done]_vars

\* C30 (debt accrual on allocation): an add of s bytes adds s + s / 1.5 to the
\* allocation debt (5 * s thirds) exactly when the phase after the add is not
\* Sleep; after an add that wakes the arena the debt is greater than 0
C30_DebtAccrual ==
    [][nalloc' # nalloc =>
        /\ allocation_debt' =
            (IF phase' # "Sleep"
             THEN allocation_debt + 5 * (total_allocated' - total_allocated)
             ELSE allocation_debt)
        /\ total_allocated' > total_allocated
        /\ (phase = "Sleep" /\ phase' = "Wake") => allocation_debt' > 0]_vars

\* the arena has just been woken by an add, which is all the debt there is
C30_Witness ==
    /\ phase = "Wake"
    /\ pc = "idle"
    /\ nalloc > 0
    /\ allocation_debt = 5 * BoxSize(ty[nalloc])

\* a call of collect made while the phase is Sleep, by a host that still held
\* an unrooted handle (which the call ends)
CollectInSleep ==
    /\ pc = "idle"
    /\ phase = "Sleep"
    /\ held # {}
    /\ held' = {}
    /\ allocation_debt' # Inf

\* C31: collect called while the phase is Sleep returns at once and leaves
\* every field of the arena as it was (the all-list, the statuses, the gray
\* stacks, the cursors, the counters, the debt, the phase); no cell is freed.
C31_SleepCollectFrame ==
    [][CollectInSleep =>
        /\ pc' = "idle"
        /\ UNCHANGED <<cellVars, listVars, grayVars, paceVars, phase, rootVars>>]_vars

\* the phase is Sleep, bytes were allocated since it became Sleep, and a
\* collect has ended the handle of the allocation
C31_Witness ==
    /\ phase = "Sleep"
    /\ pc = "idle"
    /\ held = {}
    /\ total_allocated + Max(HalfRounded(remembered_size), MIN_SLEEP) > wakeup_total
    /\ \E c \in Live : c \notin Reach(RootVals)

\* C32: write_barrier is a no-op outside its trigger: when the phase is not
\* Trace (the spec's Mark), or the cell is not Traced, or its payload type does
\* not need tracing, the barrier changes no status and pushes nothing on
\* grays_again, whichever way the host reaches it
C32_BarrierNoOp ==
    \A c \in Accessible, via \in Vias :
        (/\ pc = "idle"
         /\ \/ phase # "Trace"
            \/ status[c] # "Traced"
            \/ ~ needs_trace(ty[c]))
            => /\ BarrierStatus(c, via) = status
               /\ BarrierGraysAgain(c, via) = grays_again

RECURSIVE AllocatedSize(_)
\* the bytes `add` counted for the cells in S
AllocatedSize(S) ==
    IF S = {} THEN 0
    ELSE LET c == CHOOSE x \in S : TRUE
         IN  BoxSize(ty[c]) + AllocatedSize(S \ {c})

\* C33: the size taken off total_allocated when a cell is freed is the size
\* that was added when it was allocated, so total_allocated is always the sum
\* of the allocation sizes of the cells on the all-list, and 0 when the list
\* is empty
C33_CounterBalance ==
    Defined => total_allocated = AllocatedSize(AllSet)

\* C34: a newly created arena has phase Sleep, an empty all-list, empty gray
\* stacks, no debt, nothing allocated and wakeup_total = MIN_SLEEP; and until
\* the allocations raise total_allocated above MIN_SLEEP the arena stays as
\* it was made: add accrues no debt and collect does no work
C34_InitialState ==
    (pc = "idle" /\ AllocatedSize(Allocated) <= MIN_SLEEP)
        => /\ phase = "Sleep"
           /\ allocation_debt = 0
           /\ wakeup_total = MIN_SLEEP
           /\ grays = <<>>
           /\ grays_again = <<>>
           /\ freed = {}
           /\ \A c \in Allocated : status[c] = "Untraced"
           /\ nalloc = 0 => (all = Null /\ total_allocated = 0)

\* C35: the root list stays a finite chain: after any root calls and guard
\* drops, a root call through a guard that is already linked included, the
\* next-chain from the sentinel does not repeat a link and ends at null, so
\* the walk of the Wake step terminates
C35_RootChainFinite ==
    ArenaAlive =>
        /\ ~ RootWalkEndless
        /\ \A i, j \in 1..Len(RootChain) : RootChain[i] = RootChain[j] => i = j

\* C36: the scoped arena keeps its allocations alive: while a `with` call is
\* running, no cell that ArenaScope::add created inside it has been freed,
\* whatever collections were made and whatever the phase was at the add
C36_ScopeKeepsAlive == with_len # NoWith => held \cap freed = {}

\* the cells the scope's roots reach: the entries of the Vec and what they
\* point at
ScopeReach == Reach({roots[i] : i \in 1..Len(roots)})

\* C37: ArenaScope::collect_full runs a complete cycle: when it returns the
\* phase is Sleep and every cell that the scope's roots do not reach has been
\* freed, whatever the phase and the debt were at the call
C37_ScopedCollectFull ==
    [][ReturnsFrom("scoped_full") =>
        (phase = "Sleep" /\ Live \subseteq ScopeReach)']_vars

\* C38: when `with` returns, the Vec of scoped roots is what it was when
\* `with` was entered: the pointers pushed during the scope are gone
C38_ScopeExitRestores ==
    [][(with_len # NoWith /\ with_len' = NoWith) =>
        roots' = SubSeq(roots, 1, with_len)]_vars

====
